---- MODULE Spec2Model ----
(***************************************************************************)
(* Model of the sync pipeline of connectors/byoei.py: Fetcher.get_docs,    *)
(* Fetcher.get_attachments, Fetcher.run, Bulker.run, Bulker._batch_bulk    *)
(* and ElasticServer.async_bulk as cooperating asyncio tasks.  One action  *)
(* is one run of a task between two suspension points.                     *)
(***************************************************************************)
EXTENDS Naturals, Sequences, FiniteSets, TLC

\* ---------------------------------------------------------------- bounds
\* longest generator output explored
MaxDocs == 2
\* largest queue_size explored (asyncio.Queue maxsize of both queues)
MaxQueueSize == 2
\* Bulker.chunk_size, scaled down from 500 operations
ChunkSize == 2
\* the same for the event loop specification: three documents are needed
\* to fill the download queue
LoopMaxDocs == 3
\* Bulker.chunk_size in the event loop specification
LoopChunkSize == 4
\* ids the snapshot can hold in the event loop specification
LoopSnapshotIds == {"A"}

\* ---------------------------------------------------------------- values
Ids == {"A", "B"}
\* timestamp values a document can carry ("" is a legal string)
Timestamps == {"", "T1"}
\* timestamp values stored in the index
StoredTimestamps == {"T1"}
\* marks a document without a "timestamp" key
NoTimestamp == "<absent>"
\* the value iso_utc() assigns
NOW == "NOW"
\* the "END" item of the download queue (task handles are 1, 2, ...)
END == 0
\* marks a download result without an "_id" key
NoId == "<no _id>"

\* the (doc, lazy_download) pairs a generator can yield
Docs ==
    [_id : Ids, timestamp : Timestamps \cup {NoTimestamp},
     lazy_download : {"None", "callable"}]

NoDoc == [_id |-> "-", timestamp |-> "-", lazy_download |-> "None"]

VARIABLES
    existing_ids,         \* Fetcher.existing_ids (snapshot id set)
    existing_timestamps,  \* Fetcher.existing_timestamps (id -> timestamp)
    queue_size,           \* async_bulk's queue_size
    chunk_size,           \* Bulker.chunk_size
    queue,                \* the shared channel (stream)
    downloads,            \* Fetcher._downloads
    tasks,                \* download tasks created by get_docs, in creation order
                          \* (rank: history, the order of completion)
    sync_runs,            \* Fetcher.sync_runs
    total_downloads,      \* Fetcher.total_downloads
    total_docs_updated,   \* Fetcher.total_docs_updated
    total_docs_created,   \* Fetcher.total_docs_created
    seen_ids,             \* get_docs local seen_ids
    gdPc,                 \* position of get_docs
    cur,                  \* get_docs local doc
    operation,            \* get_docs local operation
    pending_deletes,      \* ids the final for loop of get_docs has yet to visit and delete
    attPc,                \* position of get_attachments
    attCur,               \* get_attachments local coro (task handle)
    bPc,                  \* position of Bulker.run
    batch,                \* Bulker.run local batch
    ops,                  \* Bulker.run local ops: the _batch_bulk tasks
    bulker_ops,           \* Bulker.ops counter map
    docs_ended,           \* Bulker.run local
    downloads_ended,      \* Bulker.run local
    abPc,                 \* state of the async_bulk call
    genRaised,            \* the generator raised
    yielded,              \* history: documents the generator yielded
    released,             \* history: number of lazy_download(doit=False) calls
    log,                  \* history: classification of each document
    chanLog,              \* history: every item put on the shared channel
    taken,                \* history: every item the Bulker took from it
    ready,                \* the event loop's queue of tasks ready to run
    putters,              \* tasks waiting in queue.put(), in arrival order
    max_docs              \* the generator yields at most max_docs documents

vars ==
    <<existing_ids, existing_timestamps, queue_size, chunk_size, queue,
      downloads, tasks, sync_runs, total_downloads, total_docs_updated,
      total_docs_created, seen_ids, gdPc, cur, operation, pending_deletes,
      attPc, attCur, bPc, batch, ops, bulker_ops, docs_ended,
      downloads_ended, abPc, genRaised, yielded, released, log, chanLog,
      taken, ready, putters, max_docs>>

\* the state of the event loop
loopVars == <<ready, putters>>

fetcherVars ==
    <<existing_ids, existing_timestamps, queue_size, chunk_size, max_docs>>

docVars ==
    <<sync_runs, total_docs_updated, total_docs_created, seen_ids, gdPc, cur,
      operation, pending_deletes, genRaised, yielded, released, log>>

attVars == <<total_downloads, attPc, attCur>>

bulkerVars ==
    <<bPc, batch, ops, bulker_ops, docs_ended, downloads_ended, taken>>

\* ---------------------------------------------------------------- helpers
\* dict.get(key, default)
Get(map, key, default) ==
    IF key \in DOMAIN map THEN map[key] ELSE default

\* an item of the shared channel
Item(op, id, ts, body) ==
    [_op_type |-> op, _id |-> id, timestamp |-> ts, doc |-> body]

EndDocs == Item("END_DOCS", "-", "-", "-")
EndDownloads == Item("END_DOWNLOADS", "-", "-", "-")

\* asyncio.Queue.full()
Full(q) == Len(q) >= queue_size

\* await self.queue.put(item)
Put(item) ==
    /\ ~Full(queue)
    /\ queue' = Append(queue, item)
    /\ chanLog' = Append(chanLog, item)

\* ---------------------------------------------------------------- get_docs
\* faulty variant of IsSkip: the timestamp comparison is lost, nothing is skipped
SkipNever(doc, timestamps) == FALSE

\* line 158-159: the document is unchanged
IsSkip(doc, timestamps) ==
    /\ doc.timestamp # NoTimestamp
    /\ Get(timestamps, doc._id, "") = doc.timestamp

\* line 163-164: a document without timestamp gets one
WithTimestamp(doc) ==
    IF doc.timestamp = NoTimestamp THEN [doc EXCEPT !.timestamp = NOW] ELSE doc

\* faulty variant of Classify: the membership test of line 173 is lost
ClassifyAsCreate(id, ids) == "create"

\* line 173-178
Classify(id, ids) == IF id \in ids THEN "update" ELSE "create"

\* faulty variant of IdsToDelete: the seen_ids test of line 194 is lost
IdsToDeleteAll(ids, seen) == ids

\* line 193-195: the ids the final loop deletes
IdsToDelete(ids, seen) == ids \ seen

\* line 173-178 with the counters
DoClassify(doc) ==
    /\ operation' = Classify(doc._id, existing_ids)
    /\ total_docs_updated' =
          IF operation' = "update" THEN total_docs_updated + 1
          ELSE total_docs_updated
    /\ total_docs_created' =
          IF operation' = "create" THEN total_docs_created + 1
          ELSE total_docs_created
    /\ log' = Append(log, [doc |-> doc, verdict |-> operation'])

\* line 173-189: classify, then put the operation unless the channel is full
\* (a put on a queue with room does not suspend)
ClassifyAndPut(doc) ==
    /\ DoClassify(doc)
    /\ IF Full(queue)
       THEN gdPc' = "put_op" /\ UNCHANGED <<queue, chanLog>>
       ELSE /\ queue' = Append(queue,
                   Item(operation', doc._id, doc.timestamp, "document"))
            /\ chanLog' = Append(chanLog,
                   Item(operation', doc._id, doc.timestamp, "document"))
            /\ gdPc' = "iter"

\* line 144: the task starts
GetDocsStart ==
    /\ gdPc = "start"
    /\ sync_runs' = TRUE
    /\ gdPc' = "iter"
    /\ UNCHANGED <<fetcherVars, queue, downloads, tasks, total_docs_updated,
                   total_docs_created, seen_ids, cur, operation,
                   pending_deletes, genRaised, yielded, released, log,
                   chanLog, attVars, bulkerVars, abPc>>

\* line 161: the outcomes of await lazy_download(doit=False): calling None
\* is a TypeError, the caller's awaitable returns, raises or suspends
Release(lazy_download) ==
    IF lazy_download = "None" THEN {"raised"}
    ELSE {"returned", "raised", "waits"}

\* line 161-162: where get_docs is after the release call
AfterRelease(outcome) ==
    CASE outcome = "returned" -> "iter"
      [] outcome = "raised" -> "failed"
      [] outcome = "waits" -> "release"

\* line 147-189: the generator yields d; runs up to the next suspension
GetDocsNext(d) ==
    /\ gdPc = "iter"
    /\ Len(yielded) < max_docs
    /\ yielded' = Append(yielded, d)
    /\ seen_ids' = seen_ids \cup {d._id}
    /\ IF IsSkip(d, existing_timestamps)
       THEN \* line 160-162; lazy_download(doit=False) on None is a TypeError
            /\ log' = Append(log, [doc |-> d, verdict |-> "skip"])
            /\ \E outcome \in Release(d.lazy_download) :
                  gdPc' = AfterRelease(outcome)
            /\ released' =
                  IF d.lazy_download = "None" THEN released ELSE released + 1
            /\ UNCHANGED <<cur, tasks, downloads, operation, queue, chanLog,
                           total_docs_updated, total_docs_created>>
       ELSE /\ cur' = WithTimestamp(d)
            /\ UNCHANGED released
            /\ IF d.lazy_download = "None"
               THEN ClassifyAndPut(cur') /\ UNCHANGED <<tasks, downloads>>
               ELSE \* line 166-171: the task is created, then the put may block
                    /\ tasks' = Append(tasks,
                          [_id |-> d._id, timestamp |-> cur'.timestamp,
                           state |-> "pending", data_id |-> "-",
                           rank |-> 0])
                    /\ IF Full(downloads)
                       THEN /\ gdPc' = "put_download"
                            /\ UNCHANGED <<downloads, operation, queue,
                                           chanLog, total_docs_updated,
                                           total_docs_created, log>>
                       ELSE /\ downloads' = Append(downloads, Len(tasks'))
                            /\ ClassifyAndPut(cur')
    /\ UNCHANGED <<fetcherVars, sync_runs, pending_deletes, genRaised,
                   attVars, bulkerVars, abPc>>

\* line 161-162: the awaited release call of a skipped document, which had
\* suspended, returns or raises
GetDocsRelease ==
    /\ gdPc = "release"
    /\ \E outcome \in {"returned", "raised"} : gdPc' = AfterRelease(outcome)
    /\ UNCHANGED <<fetcherVars, queue, downloads, tasks, sync_runs,
                   total_docs_updated, total_docs_created, seen_ids, cur,
                   operation, pending_deletes, genRaised, yielded, released,
                   log, chanLog, attVars, bulkerVars, abPc>>

\* line 167-189: the blocked put of the download task goes through
GetDocsPutDownload ==
    /\ gdPc = "put_download"
    /\ ~Full(downloads)
    /\ downloads' = Append(downloads, Len(tasks))
    /\ ClassifyAndPut(cur)
    /\ UNCHANGED <<fetcherVars, tasks, sync_runs, seen_ids, cur,
                   pending_deletes, genRaised, yielded, released, attVars,
                   bulkerVars, abPc>>

\* line 180-189: the blocked put of the operation goes through
GetDocsPutOp ==
    /\ gdPc = "put_op"
    /\ Put(Item(operation, cur._id, cur.timestamp, "document"))
    /\ gdPc' = "iter"
    /\ UNCHANGED <<fetcherVars, downloads, tasks, sync_runs,
                   total_docs_updated, total_docs_created, seen_ids, cur,
                   operation, pending_deletes, genRaised, yielded, released,
                   log, attVars, bulkerVars, abPc>>

\* line 147: the generator raises
GetDocsRaise ==
    /\ gdPc = "iter"
    /\ genRaised' = TRUE
    /\ gdPc' = "failed"
    /\ UNCHANGED <<fetcherVars, queue, downloads, tasks, sync_runs,
                   total_docs_updated, total_docs_created, seen_ids, cur,
                   operation, pending_deletes, yielded, released, log,
                   chanLog, attVars, bulkerVars, abPc>>

\* the orders in which a for loop can visit a set
Orders(S) ==
    {o \in [1..Cardinality(S) -> S] :
        \A i, j \in DOMAIN o : i # j => o[i] # o[j]}

\* line 193-201 from the Delete of order[1] on, as far as the queues have
\* room; endPut: "END" is already in the download queue
Finish(order, endPut) ==
    LET room == queue_size - Len(queue)
        k == IF Len(order) < room THEN Len(order) ELSE room
        dels == [i \in 1..k |-> Item("delete", order[i], "-", "-")]
        rest == SubSeq(order, k + 1, Len(order))
        q1 == queue \o dels
        l1 == chanLog \o dels
    IN  /\ pending_deletes' = rest
        /\ IF rest # <<>>
           THEN /\ gdPc' = "deletes"
                /\ queue' = q1
                /\ chanLog' = l1
                /\ UNCHANGED downloads
           ELSE IF ~endPut /\ Full(downloads)
           THEN /\ gdPc' = "put_end"
                /\ queue' = q1
                /\ chanLog' = l1
                /\ UNCHANGED downloads
           ELSE /\ downloads' =
                     IF endPut THEN downloads ELSE Append(downloads, END)
                /\ IF Len(q1) >= queue_size
                   THEN gdPc' = "end_docs" /\ queue' = q1 /\ chanLog' = l1
                   ELSE /\ gdPc' = "done"
                        /\ queue' = Append(q1, EndDocs)
                        /\ chanLog' = Append(l1, EndDocs)

finishUnchanged ==
    <<fetcherVars, tasks, sync_runs, total_docs_updated, total_docs_created,
      seen_ids, cur, operation, genRaised, yielded, released, log, attVars,
      bulkerVars, abPc>>

\* line 147, 193-201: the generator is exhausted
GetDocsExhausted ==
    /\ gdPc = "iter"
    /\ \E order \in Orders(IdsToDelete(existing_ids, seen_ids)) :
          Finish(order, FALSE)
    /\ UNCHANGED finishUnchanged

\* line 196: the blocked put of a Delete goes through
GetDocsPutDelete ==
    /\ gdPc = "deletes"
    /\ ~Full(queue)
    /\ Finish(pending_deletes, FALSE)
    /\ UNCHANGED finishUnchanged

\* line 200: the blocked put of "END" goes through
GetDocsPutEnd ==
    /\ gdPc = "put_end"
    /\ ~Full(downloads)
    /\ Finish(<<>>, FALSE)
    /\ UNCHANGED finishUnchanged

\* line 201: the blocked put of "END_DOCS" goes through
GetDocsPutEndDocs ==
    /\ gdPc = "end_docs"
    /\ ~Full(queue)
    /\ Finish(<<>>, TRUE)
    /\ UNCHANGED finishUnchanged

\* ---------------------------------------------------------------- downloads
\* the download tasks that have completed
Completed == {i \in DOMAIN tasks : tasks[i].state # "pending"}

\* what a lazy_download(doit=True, ...) call can give: attachment data (a
\* dict, whose "_id" is any id or is missing), None, or an exception
Results ==
    [state : {"data"}, _id : Ids \cup {NoId}]
        \cup [state : {"none", "raised"}, _id : {"-"}]

\* line 168-170: a scheduled lazy_download(doit=True, ...) task completes with
\* attachment data, with None, or by raising; rank records the completion
\* order
DownloadComplete(i, result) ==
    /\ i \in DOMAIN tasks
    /\ tasks[i].state = "pending"
    /\ tasks' = [tasks EXCEPT ![i].state = result.state,
                              ![i].data_id = result._id,
                              ![i].rank = Cardinality(Completed) + 1]
    /\ UNCHANGED <<fetcherVars, queue, downloads, docVars, chanLog, attVars,
                   bulkerVars, abPc>>

\* line 107: the loop condition of get_attachments
AttLoop == IF sync_runs THEN "get" ELSE "end"

\* faulty variant of StartsAfterGetDocs: t2 is not held back until t1 has run
StartsInAnyOrder == TRUE

\* line 138-139: loop.create_task runs tasks in creation order, so get_docs
\* (t1) has run its first step before get_attachments (t2) starts
StartsAfterGetDocs == gdPc # "start"

\* line 105-107: the task starts
AttStart ==
    /\ attPc = "start"
    /\ StartsAfterGetDocs
    /\ attPc' = AttLoop
    /\ UNCHANGED <<fetcherVars, queue, downloads, tasks, docVars, chanLog,
                   total_downloads, attCur, bulkerVars, abPc>>

\* faulty variant of NextDownload: the newest item is taken, not the oldest
NewestDownload(q) == q[Len(q)]

\* line 108: asyncio.Queue.get() returns the oldest item
NextDownload(q) == Head(q)

\* line 108-112, 134: an item of the download queue is taken
AttGet ==
    /\ attPc = "get"
    /\ downloads # <<>>
    /\ downloads' = Tail(downloads)
    /\ IF NextDownload(downloads) = END
       THEN /\ UNCHANGED attCur
            /\ IF Full(queue)
               THEN attPc' = "end" /\ UNCHANGED <<queue, chanLog>>
               ELSE attPc' = "done" /\ Put(EndDownloads)
       ELSE /\ attCur' = NextDownload(downloads)
            /\ attPc' =
                  CASE tasks[attCur'].state = "pending" -> "await"
                    [] tasks[attCur'].state = "raised" -> "failed"
                    [] OTHER -> "sleep"
            /\ UNCHANGED <<queue, chanLog>>
    /\ UNCHANGED <<fetcherVars, tasks, docVars, total_downloads, bulkerVars,
                   abPc>>

\* line 112: the awaited download task is done
AttAwait ==
    /\ attPc = "await"
    /\ tasks[attCur].state # "pending"
    /\ attPc' = IF tasks[attCur].state = "raised" THEN "failed" ELSE "sleep"
    /\ UNCHANGED <<fetcherVars, queue, downloads, tasks, docVars, chanLog,
                   total_downloads, attCur, bulkerVars, abPc>>

\* line 120-126: the Update operation of a download result; its "_id" is the
\* one popped from the result
AttachmentUpdate(task) == Item("update", task.data_id, "-", "attachment")

\* faulty variant of IsNone: the test of line 115 is lost
NeverNone(state) == FALSE

\* line 115: data is None
IsNone(state) == state = "none"

\* line 113-132: after the sleep the result is turned into an Update
AttResult ==
    /\ attPc = "sleep"
    /\ IF IsNone(tasks[attCur].state)
       THEN attPc' = AttLoop /\ UNCHANGED <<total_downloads, queue, chanLog>>
       ELSE /\ total_downloads' = total_downloads + 1
            /\ IF tasks[attCur].data_id = NoId
               THEN \* line 123: data.pop("_id") is a KeyError
                    attPc' = "failed" /\ UNCHANGED <<queue, chanLog>>
               ELSE IF Full(queue)
               THEN attPc' = "put_update" /\ UNCHANGED <<queue, chanLog>>
               ELSE attPc' = AttLoop /\ Put(AttachmentUpdate(tasks[attCur]))
    /\ UNCHANGED <<fetcherVars, downloads, tasks, docVars, attCur,
                   bulkerVars, abPc>>

\* line 119-132: the blocked put of the Update goes through
AttPutUpdate ==
    /\ attPc = "put_update"
    /\ Put(AttachmentUpdate(tasks[attCur]))
    /\ attPc' = AttLoop
    /\ UNCHANGED <<fetcherVars, downloads, tasks, docVars, total_downloads,
                   attCur, bulkerVars, abPc>>

\* line 134: the blocked put of "END_DOWNLOADS" goes through
AttPutEnd ==
    /\ attPc = "end"
    /\ Put(EndDownloads)
    /\ attPc' = "done"
    /\ UNCHANGED <<fetcherVars, downloads, tasks, docVars, total_downloads,
                   attCur, bulkerVars, abPc>>

\* ---------------------------------------------------------------- gather
\* faulty variant of Gather: gather(..., return_exceptions=True)
GatherIgnoringErrors(states) ==
    IF states \subseteq {"done", "failed"} THEN "done" ELSE "running"

\* asyncio.gather(*aws) without return_exceptions: raises as soon as one of
\* the awaited tasks has raised, returns when all are done, cancels nothing
Gather(states) ==
    IF "failed" \in states THEN "failed"
    ELSE IF states \subseteq {"done"} THEN "done"
    ELSE "running"

\* line 137-140: the outcome of the Fetcher.run task
FetcherRun == Gather({gdPc, attPc})

\* ---------------------------------------------------------------- Bulker
Entry(key, id, body, upsert) ==
    [key |-> key, _id |-> id, doc |-> body, doc_as_upsert |-> upsert]

\* faulty variant of WireEntries: a Create keeps "create" as its action
WireEntriesKeepTag(doc) ==
    IF doc._op_type \in {"update", "create"}
    THEN <<Entry(doc._op_type, doc._id, "-", FALSE),
           Entry("doc", doc._id, doc.doc, TRUE)>>
    ELSE <<Entry(doc._op_type, doc._id, "-", FALSE)>>

\* line 64-68: the bulk entries of one operation
WireEntries(doc) ==
    IF doc._op_type \in {"update", "create"}
    THEN <<Entry("update", doc._id, "-", FALSE),
           Entry("doc", doc._id, doc.doc, TRUE)>>
    ELSE <<Entry(doc._op_type, doc._id, "-", FALSE)>>

\* faulty variant of Incr: "=" for "+="
IncrOverwrites(counter, key) ==
    [k \in DOMAIN counter \cup {key} |-> IF k = key THEN 1 ELSE counter[k]]

\* line 62: self.ops[operation] += 1 on a defaultdict(int)
Incr(counter, key) ==
    [k \in DOMAIN counter \cup {key} |->
        Get(counter, k, 0) + (IF k = key THEN 1 ELSE 0)]

\* faulty variant of LoopEnds: "or" for "and"
LoopEndsOnFirst(de, dle) == de \/ dle

\* line 55: the drain loop ends
LoopEnds(de, dle) == de /\ dle

\* line 70: the batch is full
ShouldDispatch(b, size) == Len(b) >= size * 2

\* faulty variant of BatchBulk: the batch is passed without the copy list(batch)
\* and is cleared under the dispatch call
BatchBulkAliased(b) == [operations |-> <<>>, state |-> "pending"]

\* line 71, 77: asyncio.create_task(self._batch_bulk(list(batch)))
BatchBulk(b) == [operations |-> b, state |-> "pending"]

\* faulty variant of Flush: the last batch is dropped
FlushNothing(tasklist, b) == tasklist

\* faulty variant of Flush: the test of line 76 is lost
FlushAlways(tasklist, b) == Append(tasklist, BatchBulk(b))

\* line 76-78: the last batch
Flush(tasklist, b) ==
    IF Len(b) > 0 THEN Append(tasklist, BatchBulk(b)) ELSE tasklist

IsSentinel(doc) == doc._op_type \in {"END_DOCS", "END_DOWNLOADS"}

\* line 49-78: one item taken from the channel, up to the next suspension
BulkerGet ==
    /\ bPc = "get"
    /\ queue # <<>>
    /\ LET doc == Head(queue)
           de == docs_ended \/ doc._op_type = "END_DOCS"
           dle == downloads_ended \/ doc._op_type = "END_DOWNLOADS"
           b == batch \o WireEntries(doc)
       IN  /\ queue' = Tail(queue)
           /\ taken' = Append(taken, doc)
           /\ docs_ended' = de
           /\ downloads_ended' = dle
           /\ IF LoopEnds(de, dle)
              THEN /\ ops' = Flush(ops, batch)
                   /\ batch' = <<>>
                   /\ bPc' = "gather"
                   /\ UNCHANGED bulker_ops
              ELSE IF IsSentinel(doc)
              THEN UNCHANGED <<batch, ops, bulker_ops, bPc>>
              ELSE /\ bulker_ops' = Incr(bulker_ops, doc._op_type)
                   /\ IF ShouldDispatch(b, chunk_size)
                      THEN ops' = Append(ops, BatchBulk(b)) /\ batch' = <<>>
                      ELSE batch' = b /\ UNCHANGED ops
                   /\ UNCHANGED bPc
    /\ UNCHANGED <<fetcherVars, downloads, tasks, docVars, chanLog, attVars, abPc>>

\* line 31-40: a dispatch call returns or raises
BatchBulkComplete(i, result) ==
    /\ i \in DOMAIN ops
    /\ ops[i].state = "pending"
    /\ ops' = [ops EXCEPT ![i].state = result]
    /\ UNCHANGED <<fetcherVars, queue, downloads, tasks, docVars, chanLog,
                   attVars, bPc, batch, bulker_ops, docs_ended,
                   downloads_ended, taken, abPc>>

DispatchStates == {ops[i].state : i \in DOMAIN ops}

\* line 80
BulkerGather ==
    /\ bPc = "gather"
    /\ Gather(DispatchStates) # "running"
    /\ bPc' = Gather(DispatchStates)
    /\ UNCHANGED <<fetcherVars, queue, downloads, tasks, docVars, chanLog,
                   attVars, batch, ops, bulker_ops, docs_ended,
                   downloads_ended, taken, abPc>>

\* ---------------------------------------------------------------- async_bulk
\* line 281-289
AsyncBulk ==
    /\ abPc = "running"
    /\ Gather({FetcherRun, bPc}) # "running"
    /\ abPc' =
          IF Gather({FetcherRun, bPc}) = "done" THEN "returned" ELSE "raised"
    /\ UNCHANGED <<fetcherVars, queue, downloads, tasks, docVars, chanLog,
                   attVars, bulkerVars>>

\* faulty variant of Stats: doc_created and doc_updated are swapped
StatsSwapped ==
    [bulk_operations |-> bulker_ops,
     doc_created |-> total_docs_updated,
     attachment_extracted |-> total_downloads,
     doc_updated |-> total_docs_created]

\* line 284-289: the statistics async_bulk returns
Stats ==
    [bulk_operations |-> bulker_ops,
     doc_created |-> total_docs_created,
     attachment_extracted |-> total_downloads,
     doc_updated |-> total_docs_updated]

\* ---------------------------------------------------------------- system
\* line 253-279: the snapshot is built, the queues and the tasks are created
Start ==
    /\ existing_timestamps \in
          UNION {[S -> StoredTimestamps] : S \in SUBSET Ids}
    /\ existing_ids = DOMAIN existing_timestamps
    /\ queue_size \in 1..MaxQueueSize
    /\ queue = <<>>
    /\ downloads = <<>>
    /\ tasks = <<>>
    /\ sync_runs = FALSE
    /\ total_downloads = 0
    /\ total_docs_updated = 0
    /\ total_docs_created = 0
    /\ seen_ids = {}
    /\ gdPc = "start"
    /\ cur = NoDoc
    /\ operation = "-"
    /\ pending_deletes = <<>>
    /\ attPc = "start"
    /\ attCur = 0
    /\ bPc = "get"
    /\ batch = <<>>
    /\ ops = <<>>
    /\ bulker_ops = [k \in {} |-> 0]
    /\ docs_ended = FALSE
    /\ downloads_ended = FALSE
    /\ abPc = "running"
    /\ genRaised = FALSE
    /\ yielded = <<>>
    /\ released = 0
    /\ log = <<>>
    /\ chanLog = <<>>
    /\ taken = <<>>

\* the tasks in any order: the event loop's queue is not tracked
Init ==
    /\ Start
    /\ chunk_size = ChunkSize
    /\ max_docs = MaxDocs
    /\ ready = <<>>
    /\ putters = <<>>

\* a step of a task when the order of the event loop is left open
Free(step) == step /\ UNCHANGED loopVars

Next ==
    \/ Free(GetDocsStart)
    \/ Free(\E d \in Docs : GetDocsNext(d))
    \/ Free(GetDocsRelease)
    \/ Free(GetDocsPutDownload)
    \/ Free(GetDocsPutOp)
    \/ Free(GetDocsRaise)
    \/ Free(GetDocsExhausted)
    \/ Free(GetDocsPutDelete)
    \/ Free(GetDocsPutEnd)
    \/ Free(GetDocsPutEndDocs)
    \/ Free(\E i \in 1..MaxDocs, r \in Results : DownloadComplete(i, r))
    \/ Free(AttStart)
    \/ Free(AttGet)
    \/ Free(AttAwait)
    \/ Free(AttResult)
    \/ Free(AttPutUpdate)
    \/ Free(AttPutEnd)
    \/ Free(BulkerGet)
    \/ Free(\E i \in DOMAIN ops, r \in {"done", "failed"} :
                BatchBulkComplete(i, r))
    \/ Free(BulkerGather)
    \/ Free(AsyncBulk)

Spec == Init /\ [][Next]_vars

\* the event loop runs every task that can run, and every download and
\* dispatch call completes
FairSpec == Spec /\ WF_vars(Next)

\* ---------------------------------------------------------------- event loop
\* The asyncio event loop: the tasks that can run wait in one queue, the
\* first one runs up to its next suspension point, a task that suspends
\* with asyncio.sleep(0) or is woken goes to the end of the queue.
GD == <<"get_docs", 0>>
ATT == <<"get_attachments", 0>>
BULKER == <<"Bulker.run", 0>>
DL(i) == <<"lazy_download", i>>

\* the documents of the event loop specification: the timestamp of a
\* document only decides whether it is skipped
LoopDocs == {d \in Docs : d.timestamp \in StoredTimestamps}

InReady(task) == \E k \in DOMAIN ready : ready[k] = task

\* line 275-281: Bulker.run waits in queue.get() of the empty channel when
\* get_docs (t1) and get_attachments (t2) run their first steps
LoopInit ==
    /\ Start
    /\ existing_ids \subseteq LoopSnapshotIds
    /\ chunk_size = LoopChunkSize
    /\ max_docs = LoopMaxDocs
    /\ ready = <<GD, ATT>>
    /\ putters = <<>>

\* faulty variant of Requeue: a task that suspends with asyncio.sleep(0) runs
\* again before the tasks that were waiting
RequeueInFront(task, after, woken) ==
    (IF after \in {"continue", "yield"} THEN <<task>> ELSE <<>>)
        \o Tail(ready) \o woken

\* the queue of the event loop after the step of its first task: the task
\* goes on ("continue"), has suspended with asyncio.sleep(0) ("yield":
\* line 74, 113, 132, 189) or waits or has ended ("leave"); the tasks its
\* step woke were queued during the step
Requeue(task, after, woken) ==
    (IF after = "continue" THEN <<task>> ELSE <<>>)
        \o Tail(ready) \o woken
        \o (IF after = "yield" THEN <<task>> ELSE <<>>)

\* Queue.put_nowait wakes the getter: Bulker.run waiting in line 49
WakeBulker ==
    IF Len(chanLog') > Len(chanLog) /\ bPc = "get" /\ ~InReady(BULKER)
    THEN <<BULKER>> ELSE <<>>

\* the same for get_attachments waiting in line 108
WakeAttachments ==
    IF Len(downloads') > Len(downloads) /\ attPc = "get" /\ ~InReady(ATT)
    THEN <<ATT>> ELSE <<>>

\* line 167-168: loop.create_task queues the new download task
Created ==
    IF Len(tasks') > Len(tasks) THEN <<DL(Len(tasks'))>> ELSE <<>>

\* the tasks a step of get_docs queues, in the order of its calls: in the
\* loop body create_task (line 168), the put on the download queue (line
\* 167), the put on the channel (line 180); in the final part the Deletes
\* are put on the channel (line 196) before "END" is put on the download
\* queue (line 200)
WokenByGetDocs ==
    IF /\ Len(chanLog') > Len(chanLog)
       /\ chanLog'[Len(chanLog) + 1]._op_type = "delete"
    THEN WakeBulker \o WakeAttachments
    ELSE Created \o WakeAttachments \o WakeBulker

\* how a step of get_docs ends: after a put of a document operation it
\* sleeps (line 189); a release call that suspends (line 161) has slept
\* (asyncio.sleep(0)) or waits for its source
AfterGetDocs ==
    IF gdPc' \in {"done", "failed"} THEN {"leave"}
    ELSE IF gdPc' = "release" THEN {"yield", "leave"}
    ELSE IF gdPc' = "iter" /\ Len(chanLog') > Len(chanLog) THEN {"yield"}
    ELSE {"continue"}

\* line 147-201: a step of get_docs
LoopGetDocs(step) ==
    /\ ready # <<>>
    /\ Head(ready) = GD
    /\ step
    /\ \E after \in AfterGetDocs :
          ready' = Requeue(GD, after, WokenByGetDocs)
    /\ UNCHANGED putters

\* Queue.get_nowait wakes the putter: get_docs waiting in line 167 or 200
WakeGetDocs ==
    IF gdPc \in {"put_download", "put_end"} /\ ~InReady(GD)
    THEN <<GD>> ELSE <<>>

\* line 105-135: a step of get_attachments; it sleeps after the await of
\* the download (line 113) and after the put of an Update (line 132)
LoopAttachments(step) ==
    /\ ready # <<>>
    /\ Head(ready) = ATT
    /\ step
    /\ ready' =
          Requeue(ATT,
                  IF attPc' \in {"done", "failed"} THEN "leave"
                  ELSE IF attPc' = "sleep" \/ Len(chanLog') > Len(chanLog)
                  THEN "yield" ELSE "continue",
                  (IF Len(downloads') < Len(downloads)
                   THEN WakeGetDocs ELSE <<>>) \o WakeBulker)
    /\ UNCHANGED putters

\* line 49-80: a step of Bulker.run; Queue.get_nowait wakes the first task
\* waiting in queue.put(); after an operation the Bulker sleeps (line 74),
\* after the first sentinel it goes on (line 58-59)
LoopBulkerGet ==
    /\ ready # <<>>
    /\ Head(ready) = BULKER
    /\ BulkerGet
    /\ ready' =
          Requeue(BULKER,
                  IF bPc' # "get" THEN "leave"
                  ELSE IF IsSentinel(Head(queue)) THEN "continue" ELSE "yield",
                  IF putters # <<>> THEN <<Head(putters)>> ELSE <<>>)
    /\ putters' = IF putters # <<>> THEN Tail(putters) ELSE putters

\* the task would wait in queue.put() of the full channel
PutBlocked(task) ==
    /\ Full(queue)
    /\ \/ task = GD /\ gdPc \in {"put_op", "deletes", "end_docs"}
       \/ task = ATT /\ attPc \in {"put_update", "end"}

\* the task would wait for something else: a put on the full download
\* queue, a get on an empty queue, the download task it awaits
OtherBlocked(task) ==
    \/ task = GD /\ gdPc \in {"put_download", "put_end"} /\ Full(downloads)
    \/ task = ATT /\ attPc = "get" /\ downloads = <<>>
    \/ task = ATT /\ attPc = "await" /\ tasks[attCur].state = "pending"
    \/ task = BULKER /\ bPc = "get" /\ queue = <<>>

baseVars ==
    <<fetcherVars, queue, downloads, tasks, docVars, chanLog, attVars,
      bulkerVars, abPc>>

\* Queue.put: the first task cannot go on and waits; a task woken in
\* queue.put() that finds the channel full again waits behind the others
Block ==
    /\ ready # <<>>
    /\ PutBlocked(Head(ready)) \/ OtherBlocked(Head(ready))
    /\ ready' = Tail(ready)
    /\ putters' =
          IF PutBlocked(Head(ready)) THEN Append(putters, Head(ready))
          ELSE putters
    /\ UNCHANGED baseVars

\* the first task suspends in the caller's code: it waits for its source,
\* or it has slept (asyncio.sleep(0)) and is queued again
Suspend(task) == ready' \in {Tail(ready), Append(Tail(ready), task)}

\* line 147: the generator suspends before it yields; line 161: the release
\* call suspends again
GeneratorWait ==
    /\ ready # <<>>
    /\ Head(ready) = GD
    /\ gdPc \in {"iter", "release"}
    /\ Suspend(GD)
    /\ UNCHANGED <<putters, baseVars>>

\* the source has answered
GeneratorWake ==
    /\ gdPc \in {"iter", "release"}
    /\ ~InReady(GD)
    /\ ready' = Append(ready, GD)
    /\ UNCHANGED <<putters, baseVars>>

\* line 168-170: the download task returns or raises; get_attachments is
\* woken if it awaits this task (line 112)
LoopDownloadComplete(i, result) ==
    /\ ready # <<>>
    /\ Head(ready) = DL(i)
    /\ DownloadComplete(i, result)
    /\ ready' =
          Requeue(DL(i), "leave",
                  IF attPc = "await" /\ attCur = i /\ ~InReady(ATT)
                  THEN <<ATT>> ELSE <<>>)
    /\ UNCHANGED putters

\* line 168-170: the download task suspends
DownloadWait(i) ==
    /\ ready # <<>>
    /\ Head(ready) = DL(i)
    /\ Suspend(DL(i))
    /\ UNCHANGED <<putters, baseVars>>

\* the source has answered
DownloadWake(i) ==
    /\ i \in DOMAIN tasks
    /\ tasks[i].state = "pending"
    /\ ~InReady(DL(i))
    /\ ready' = Append(ready, DL(i))
    /\ UNCHANGED <<putters, baseVars>>

\* line 31-40, 80, 281: the dispatch calls and the gathers do not put on the
\* channel: they complete at any time
Outside ==
    /\ \/ \E i \in DOMAIN ops, r \in {"done", "failed"} :
             BatchBulkComplete(i, r)
       \/ BulkerGather
       \/ AsyncBulk
    /\ UNCHANGED loopVars

LoopNext ==
    \/ LoopGetDocs(GetDocsStart)
    \/ LoopGetDocs(\E d \in LoopDocs : GetDocsNext(d))
    \/ LoopGetDocs(GetDocsRelease)
    \/ LoopGetDocs(GetDocsPutDownload)
    \/ LoopGetDocs(GetDocsPutOp)
    \/ LoopGetDocs(GetDocsRaise)
    \/ LoopGetDocs(GetDocsExhausted)
    \/ LoopGetDocs(GetDocsPutDelete)
    \/ LoopGetDocs(GetDocsPutEnd)
    \/ LoopGetDocs(GetDocsPutEndDocs)
    \/ LoopAttachments(AttStart)
    \/ LoopAttachments(AttGet)
    \/ LoopAttachments(AttAwait)
    \/ LoopAttachments(AttResult)
    \/ LoopAttachments(AttPutUpdate)
    \/ LoopAttachments(AttPutEnd)
    \/ LoopBulkerGet
    \/ Block
    \/ GeneratorWait
    \/ GeneratorWake
    \/ \E i \in 1..LoopMaxDocs, r \in Results : LoopDownloadComplete(i, r)
    \/ \E i \in 1..LoopMaxDocs : DownloadWait(i)
    \/ \E i \in 1..LoopMaxDocs : DownloadWake(i)
    \/ Outside

\* the pipeline under the event loop's order of the tasks
LoopSpec == LoopInit /\ [][LoopNext]_vars

\* ---------------------------------------------------------------- observations
IsOp(item) == ~IsSentinel(item)

\* positions of the Delete operations put on the shared channel
DeletePuts == {i \in DOMAIN chanLog : chanLog[i]._op_type = "delete"}

\* ids the generator yielded in this pass, skipped ones included
YieldedIds == {yielded[i]._id : i \in DOMAIN yielded}

\* get_docs has left its async for loop normally
GeneratorExhausted == gdPc \in {"deletes", "put_end", "end_docs", "done"}

\* the snapshot holds this very timestamp for the document's id
Unchanged(doc) ==
    /\ doc.timestamp # NoTimestamp
    /\ doc._id \in DOMAIN existing_timestamps
    /\ existing_timestamps[doc._id] = doc.timestamp

\* positions of the operations (sentinels left out) the Bulker has taken
OpsTaken == {i \in DOMAIN taken : IsOp(taken[i])}

\* the (dispatch, position) pairs of the action entries of all dispatched
\* batches: one per operation
OperationsDispatched ==
    UNION {{<<i, j>> : j \in {n \in DOMAIN ops[i].operations :
                                 ops[i].operations[n].key # "doc"}} :
           i \in DOMAIN ops}

\* the same for the batch under construction
OperationsInBatch == {n \in DOMAIN batch : batch[n].key # "doc"}

\* all wire entries handed to dispatch calls
EntriesDispatched ==
    UNION {{<<i, j>> : j \in DOMAIN ops[i].operations} : i \in DOMAIN ops}

\* wire entries the operations taken so far expand to
EntriesTaken ==
    UNION {{<<i, j>> : j \in DOMAIN WireEntries(taken[i])} : i \in OpsTaken}

CounterSum ==
    Get(bulker_ops, "create", 0) + Get(bulker_ops, "update", 0)
        + Get(bulker_ops, "delete", 0)

AnyDispatchFailed == \E i \in DOMAIN ops : ops[i].state = "failed"

\* get_docs failed in the release call of a skipped document's lazy
\* download (line 161), and the lazy download is the caller's function
ReleaseRaised ==
    /\ gdPc = "failed"
    /\ ~genRaised
    /\ log[Len(log)].doc.lazy_download = "callable"

\* an error from outside the pipeline: generator, release call, download
\* (raising, or giving data without "_id") or dispatch call
ExternalError ==
    \/ genRaised
    \/ ReleaseRaised
    \/ \E i \in DOMAIN tasks : tasks[i].data_id = NoId
    \/ \E i \in DOMAIN tasks : tasks[i].state = "raised"
    \/ AnyDispatchFailed

\* nothing can happen any more
Quiescent == ~ENABLED Next

\* the document operations put on the channel, in order
DocOps == SelectSeq(chanLog, LAMBDA item : item.doc = "document")

\* the classifications other than skip, in order
NonSkip == SelectSeq(log, LAMBDA entry : entry.verdict # "skip")

\* positions of the Updates with a download result on the shared channel
AttachmentPuts == {i \in DOMAIN chanLog : chanLog[i].doc = "attachment"}

\* download tasks that returned a non-empty result
TasksWithData == {i \in DOMAIN tasks : tasks[i].state = "data"}

\* yielded documents with a lazy download that were not skipped
ScheduledDocs ==
    {i \in DOMAIN yielded :
        /\ yielded[i].lazy_download = "callable"
        /\ i \in DOMAIN log => log[i].verdict # "skip"}

\* skipped documents whose lazy download was called with doit=False
ReleasedDocs ==
    {i \in DOMAIN log :
        log[i].verdict = "skip" /\ yielded[i].lazy_download = "callable"}

\* END_DOWNLOADS has been put on the shared channel
EndDownloadsPut == \E i \in DOMAIN chanLog : chanLog[i] = EndDownloads

\* get_docs has put "END" on the download queue and get_attachments took it
EndTaken == gdPc \in {"end_docs", "done"} /\ downloads = <<>>

\* the Updates with a download result put on the channel, in order
AttachmentOps == SelectSeq(chanLog, LAMBDA item : item.doc = "attachment")

\* the download tasks with a non-empty result, in scheduling order
DataTasks == SelectSeq(tasks, LAMBDA task : task.state = "data")

\* position on the channel of the n-th operation of this kind of body
PutPosition(body, n) ==
    CHOOSE p \in DOMAIN chanLog :
        /\ chanLog[p].doc = body
        /\ Cardinality({q \in 1..p : chanLog[q].doc = body}) = n

\* the download task whose result the k-th attachment Update carries: the
\* k-th task with a non-empty result, in scheduling order
TaskOfUpdate(k) ==
    CHOOSE t \in TasksWithData :
        Cardinality({u \in TasksWithData : u <= t}) = k

\* the yielded document get_docs created the t-th download task for
DocOfTask(t) ==
    CHOOSE i \in ScheduledDocs :
        Cardinality({j \in ScheduledDocs : j <= i}) = t

\* the number of documents up to the i-th yielded one that were not skipped:
\* the i-th document's operation is the n-th document operation
OperationOfDoc(i) ==
    Cardinality({j \in 1..i : j \in DOMAIN log => log[j].verdict # "skip"})

\* the dispatched batches in dispatch order, then the batch under construction
Batches ==
    [i \in 1..(Len(ops) + 1) |->
        IF i <= Len(ops) THEN ops[i].operations ELSE batch]

\* the first n batches, concatenated
RECURSIVE Concatenated(_)
Concatenated(n) ==
    IF n = 0 THEN <<>> ELSE Concatenated(n - 1) \o Batches[n]

\* the wire expansion of the first n items taken from the channel
RECURSIVE Expanded(_)
Expanded(n) ==
    IF n = 0 THEN <<>>
    ELSE Expanded(n - 1)
             \o (IF IsOp(taken[n]) THEN WireEntries(taken[n]) ELSE <<>>)

\* the (batch, position) pairs of the wire entries with this action key
EntriesWithKey(k) ==
    UNION {{<<i, n>> : n \in {m \in DOMAIN Batches[i] : Batches[i][m].key = k}} :
           i \in DOMAIN Batches}

\* positions of the operations of these types the Bulker has taken
TakenOfType(types) == {i \in OpsTaken : taken[i]._op_type \in types}

\* ---------------------------------------------------------------- claims
\* C1: the Deletes put on the channel are exactly one per snapshot id the
\* generator did not yield (skipped ids count as yielded), never one for a
\* yielded id, and each is put only after the generator is exhausted.
C1_DeletesAreMissingIds ==
    /\ DeletePuts # {} => GeneratorExhausted
    /\ \A i \in DeletePuts : chanLog[i]._id \in existing_ids \ YieldedIds
    /\ \A i, j \in DeletePuts : chanLog[i]._id = chanLog[j]._id => i = j
    /\ gdPc = "done" =>
          {chanLog[i]._id : i \in DeletePuts} = existing_ids \ YieldedIds

C1_Witness ==
    /\ gdPc = "done"
    /\ DeletePuts # {}
    /\ \E i \in DOMAIN log :
          log[i].verdict = "skip" /\ log[i].doc._id \in existing_ids
    /\ \E i \in DOMAIN log : log[i].verdict = "update"

\* C2: a document is skipped only when it carries a timestamp and the
\* snapshot stores an equal timestamp for its id.
C2_SkipOnlyWhenStoredEqual ==
    \A i \in DOMAIN log : log[i].verdict = "skip" => Unchanged(log[i].doc)

\* C3: Bulker.run is past its drain loop only when it has taken both
\* sentinels, and every operation it took, also between the two sentinels,
\* is counted and is in a batch.
C3_DrainsUntilBothSentinels ==
    /\ bPc # "get" =>
          /\ \E i \in DOMAIN taken : taken[i] = EndDocs
          /\ \E i \in DOMAIN taken : taken[i] = EndDownloads
    /\ CounterSum = Cardinality(OpsTaken)
    /\ Cardinality(OperationsDispatched) + Cardinality(OperationsInBatch)
          = Cardinality(OpsTaken)

C3_Witness ==
    /\ bPc = "done"
    /\ \E i, j, k \in DOMAIN taken :
          /\ i < j /\ j < k
          /\ taken[i] = EndDocs /\ IsOp(taken[j]) /\ taken[k] = EndDownloads
    /\ \E i, j \in DOMAIN chanLog :
          i < j /\ chanLog[i] = EndDocs /\ chanLog[j] = EndDownloads

\* C4: no dispatched batch holds more than 2 * chunk_size wire entries.
C4_BatchBound ==
    \A i \in DOMAIN ops : Len(ops[i].operations) <= 2 * chunk_size

\* C5 as stated: at return doc_created + doc_updated + Deletes emitted is the
\* number of operations in the dispatched batches.
C5_OperationsBalance ==
    abPc = "returned" =>
        Stats.doc_created + Stats.doc_updated + Cardinality(DeletePuts)
            = Cardinality(OperationsDispatched)

\* C5 amended: at return doc_created + doc_updated + attachment_extracted +
\* Deletes emitted is the number of operations in the dispatched batches.
C5_OperationsBalanceWithAttachments ==
    abPc = "returned" =>
        Stats.doc_created + Stats.doc_updated + Stats.attachment_extracted
            + Cardinality(DeletePuts) = Cardinality(OperationsDispatched)

C5_Witness ==
    /\ abPc = "returned"
    /\ Stats.attachment_extracted > 0
    /\ Stats.doc_created > 0
    /\ DeletePuts # {}

\* C6: no id is classified (Create, Update or skip) more than once in a pass.
C6_ClassifiedAtMostOnce ==
    \A i, j \in DOMAIN log : log[i].doc._id = log[j].doc._id => i = j

\* C7: while every yielded document carries the timestamp the snapshot
\* stores for its id, nothing but Deletes of snapshot ids that were not
\* yielded is put on the channel, and the three counters stay 0.
C7_UnchangedPassOnlyDeletes ==
    (\A i \in DOMAIN yielded : Unchanged(yielded[i])) =>
        /\ \A i \in DOMAIN chanLog :
              \/ IsSentinel(chanLog[i])
              \/ /\ chanLog[i]._op_type = "delete"
                 /\ chanLog[i]._id \in existing_ids \ YieldedIds
        /\ total_docs_created = 0
        /\ total_docs_updated = 0
        /\ total_downloads = 0
        /\ tasks = <<>>

C7_Witness ==
    /\ abPc = "returned"
    /\ yielded # <<>>
    /\ \A i \in DOMAIN yielded : Unchanged(yielded[i])
    /\ DeletePuts # {}

\* C8: once the generator has raised and nothing can happen any more, the
\* sync call has raised and Bulker.run and get_attachments have ended.
C8_GeneratorErrorEndsStages ==
    (genRaised /\ Quiescent) =>
        /\ abPc = "raised"
        /\ bPc \in {"done", "failed"}
        /\ attPc \in {"done", "failed"}

\* C9: a failed dispatch is never dispatched again (every wire entry taken
\* is in one batch only), Bulker.run does not end normally, the sync call
\* never returns statistics and has raised when nothing can happen any more.
C9_DispatchErrorAborts ==
    /\ Cardinality(EntriesDispatched) + Len(batch) = Cardinality(EntriesTaken)
    /\ AnyDispatchFailed =>
          /\ bPc # "done"
          /\ abPc # "returned"
          /\ Quiescent => abPc = "raised"

C9_Witness ==
    /\ abPc = "raised"
    /\ bPc = "failed"
    /\ FetcherRun = "done"
    /\ \E i, j \in DOMAIN ops :
          i < j /\ ops[i].state = "failed" /\ ops[j].state = "done"

\* C10: without an error of the generator, a download or a dispatch call,
\* the pipeline stops only when the sync call has returned.
C10_SyncReturns ==
    (~ExternalError /\ Quiescent) => abPc = "returned"

\* C11 as stated: every operation keeps its own action tag in the wire
\* format, so there are as many "create", "update" and "delete" action
\* entries as Create, Update and Delete operations taken from the channel.
C11_OwnActionTag ==
    \A k \in {"create", "update", "delete"} :
        Cardinality(EntriesWithKey(k)) = Cardinality(TakenOfType({k}))

\* C11 amended: an Update and a Create both yield an entry with action
\* "update" followed by a body entry of the same id with doc_as_upsert true,
\* a Delete yields one entry with action "delete" and no body; no entry
\* has action "create".
C11_UpsertActionTag ==
    /\ \A i \in DOMAIN Batches : \A n \in DOMAIN Batches[i] :
          LET b == Batches[i] IN
          /\ b[n].key \in {"update", "doc", "delete"}
          /\ b[n].key = "update" =>
                /\ n + 1 \in DOMAIN b
                /\ b[n + 1].key = "doc"
                /\ b[n + 1]._id = b[n]._id
                /\ b[n + 1].doc_as_upsert
                /\ b[n + 1].doc \in {"document", "attachment"}
          /\ b[n].key = "doc" =>
                n - 1 \in DOMAIN b /\ b[n - 1].key = "update"
          /\ b[n].key = "delete" => b[n].doc = "-" /\ ~b[n].doc_as_upsert
    /\ Cardinality(EntriesWithKey("update"))
          = Cardinality(TakenOfType({"update", "create"}))
    /\ Cardinality(EntriesWithKey("doc"))
          = Cardinality(TakenOfType({"update", "create"}))
    /\ Cardinality(EntriesWithKey("delete"))
          = Cardinality(TakenOfType({"delete"}))

C11_Witness ==
    /\ bPc = "done"
    /\ TakenOfType({"create"}) # {}
    /\ TakenOfType({"update"}) # {}
    /\ TakenOfType({"delete"}) # {}

\* C12: every document that is not skipped gets exactly one operation on the
\* channel, an Update when its id is in the snapshot id set and a Create
\* otherwise; a document without timestamp field is never skipped and its
\* operation carries an assigned timestamp.
C12_ClassifiedBySnapshotIds ==
    /\ Len(DocOps) = Len(NonSkip) - (IF gdPc = "put_op" THEN 1 ELSE 0)
    /\ \A i \in DOMAIN DocOps :
          /\ DocOps[i]._id = NonSkip[i].doc._id
          /\ DocOps[i]._op_type = "update" <=> DocOps[i]._id \in existing_ids
          /\ DocOps[i]._op_type = "create" <=> DocOps[i]._id \notin existing_ids
          /\ DocOps[i].timestamp = NonSkip[i].doc.timestamp
          /\ DocOps[i].timestamp # NoTimestamp
    /\ \A i \in DOMAIN log :
          /\ log[i].doc._id = yielded[i]._id
          /\ yielded[i].timestamp = NoTimestamp =>
                log[i].verdict # "skip" /\ log[i].doc.timestamp = NOW
    /\ GeneratorExhausted => Len(log) = Len(yielded)

C12_Witness ==
    /\ gdPc = "done"
    /\ \E i, j \in DOMAIN log :
          /\ yielded[i].timestamp = NoTimestamp
          /\ log[i].verdict = "update"
          /\ log[j].verdict = "create"
    /\ Len(DocOps) = 2

\* C13: the attachment counter counts the awaited downloads with a non-empty
\* result, one per Update put on the channel (or about to be put, or lost
\* because the result has no "_id"), and none for an empty result; download
\* tasks exist only for documents that
\* were not skipped, so a lazy download called with doit=False on the skip
\* path adds neither to the counter nor to the channel; when
\* get_attachments ends the counter is the number of scheduled downloads
\* with a non-empty result.
C13_CounterCountsResults ==
    /\ total_downloads
          = Cardinality(AttachmentPuts)
              + (IF attPc = "put_update" THEN 1 ELSE 0)
              + (IF attPc = "failed" /\ tasks[attCur].data_id = NoId
                 THEN 1 ELSE 0)
    /\ total_downloads <= Cardinality(TasksWithData)
    /\ attPc = "done" => total_downloads = Cardinality(TasksWithData)
    /\ Len(tasks) = Cardinality(ScheduledDocs)
    /\ released = Cardinality(ReleasedDocs)
    /\ \A i \in AttachmentPuts :
          \E t \in TasksWithData : tasks[t].data_id = chanLog[i]._id

C13_Witness ==
    /\ attPc = "done"
    /\ released > 0
    /\ \E i \in DOMAIN tasks : tasks[i].state = "none"
    /\ total_downloads = 0

\* C14: lazy_download(doit=False) is called for the skipped documents that
\* have a lazy download and for no others; a skipped document without one
\* puts no operation on the channel and does not make get_docs fail: get_docs
\* fails only when the generator or the release call of a lazy download
\* raises.
C14_SkipWithoutDownloadContinues ==
    /\ released = Cardinality(ReleasedDocs)
    /\ Len(DocOps) <= Len(NonSkip)
    /\ gdPc = "failed" => genRaised \/ ReleaseRaised

\* C15: get_attachments leaves its loop, and puts END_DOWNLOADS, only after
\* it has taken "END" from the download queue; by then every scheduled
\* download has been awaited and the Update of each non-empty result is on
\* the channel, before END_DOWNLOADS. It never leaves the loop because
\* sync_runs is still false.
C15_EndDownloadsAfterAllDownloads ==
    /\ attPc \in {"end", "done"} =>
          /\ sync_runs
          /\ EndTaken
          /\ \A i \in DOMAIN tasks : tasks[i].state \in {"data", "none"}
          /\ Cardinality(AttachmentPuts) = Cardinality(TasksWithData)
          /\ Len(tasks) = Cardinality(ScheduledDocs)
    /\ EndDownloadsPut => attPc = "done"
    /\ \A i, j \in DOMAIN chanLog :
          chanLog[i] = EndDownloads /\ j \in AttachmentPuts => j < i
    /\ \A i, j \in DOMAIN chanLog :
          chanLog[i] = EndDownloads /\ chanLog[j] = EndDownloads => i = j

C15_Witness ==
    /\ EndDownloadsPut
    /\ Len(tasks) = 2
    /\ Cardinality(AttachmentPuts) = 1
    /\ \E i \in DOMAIN tasks : tasks[i].state = "none"

\* C16: the Updates with download results are on the channel in the order
\* in which get_docs scheduled their download tasks, whatever the order in
\* which the tasks completed.
C16_UpdatesInSchedulingOrder ==
    /\ Len(AttachmentOps) <= Len(DataTasks)
    /\ \A i \in DOMAIN AttachmentOps : AttachmentOps[i]._id = DataTasks[i].data_id
    /\ attPc = "done" => Len(AttachmentOps) = Len(DataTasks)

C16_Witness ==
    /\ Len(AttachmentOps) = 2
    /\ AttachmentOps[1]._id # AttachmentOps[2]._id
    /\ tasks[2].rank < tasks[1].rank

\* C17: the batches in dispatch order, followed by the batch under
\* construction, concatenate to the wire expansion of the operations in the
\* order the Bulker took them; the Bulker takes the items in the order they
\* were put; nothing is put after both sentinels; when the sync returns,
\* everything put has been taken and is in a dispatched batch.
C17_BatchesAreTheChannel ==
    /\ Concatenated(Len(ops) + 1) = Expanded(Len(taken))
    /\ taken \o queue = chanLog
    /\ \A i, j, k \in DOMAIN chanLog :
          chanLog[i] = EndDocs /\ chanLog[j] = EndDownloads =>
              k <= i \/ k <= j
    /\ abPc = "returned" =>
          /\ taken = chanLog
          /\ batch = <<>>
          /\ Concatenated(Len(ops)) = Expanded(Len(chanLog))

C17_Witness ==
    /\ abPc = "returned"
    /\ Len(ops) = 2
    /\ Cardinality(OpsTaken) >= 3
    /\ TakenOfType({"delete"}) # {}

\* C18: past its drain loop Bulker.run has dispatched every wire entry it
\* took, and no dispatched batch is empty: the remaining batch is dispatched
\* if and only if it is non-empty. Bulker.run ends normally only when every
\* dispatch call it started has completed, and none is in flight when the
\* sync returns its statistics.
C18_FlushAndAwaitDispatches ==
    /\ \A i \in DOMAIN ops : ops[i].operations # <<>>
    /\ bPc # "get" =>
          /\ Concatenated(Len(ops)) = Expanded(Len(taken))
          /\ OperationsInBatch = {}
    /\ bPc = "done" => \A i \in DOMAIN ops : ops[i].state = "done"
    /\ abPc = "returned" =>
          /\ bPc = "done"
          /\ \A i \in DOMAIN ops : ops[i].state # "pending"

C18_Witness ==
    /\ abPc = "returned"
    /\ Len(ops) = 2
    /\ Len(ops[1].operations) >= 2 * chunk_size
    /\ Len(ops[2].operations) < 2 * chunk_size

\* C19: in every state, whatever the states of the dispatch calls, the
\* counter of each operation type is the number of operations of that type
\* taken from the channel so far, and only types that were taken have a
\* counter: the counters depend on the operations taken alone, not on the
\* completion of their dispatch.
C19_CountedWhenTaken ==
    /\ \A k \in {"create", "update", "delete"} :
          Get(bulker_ops, k, 0) = Cardinality(TakenOfType({k}))
    /\ DOMAIN bulker_ops = {taken[i]._op_type : i \in OpsTaken}

C19_Witness ==
    /\ Len(ops) = 2
    /\ ops[1].state = "pending"
    /\ ops[2].state = "done"
    /\ Get(bulker_ops, "update", 0) = 2
    /\ Get(bulker_ops, "create", 0) = 1

\* C20: when the sync returns, bulk_operations counts doc_created Creates,
\* doc_updated + attachment_extracted Updates and one Delete per snapshot id
\* the generator did not yield; a type that never occurred has no key in
\* bulk_operations, which is read as 0.
C20_StatsConsistent ==
    abPc = "returned" =>
        /\ Get(Stats.bulk_operations, "create", 0) = Stats.doc_created
        /\ Get(Stats.bulk_operations, "update", 0)
              = Stats.doc_updated + Stats.attachment_extracted
        /\ Get(Stats.bulk_operations, "delete", 0)
              = Cardinality(existing_ids \ YieldedIds)
        /\ DOMAIN Stats.bulk_operations \subseteq {"create", "update", "delete"}
        /\ \A k \in DOMAIN Stats.bulk_operations : Stats.bulk_operations[k] > 0

C20_Witness ==
    /\ abPc = "returned"
    /\ Stats.doc_created = 1
    /\ Stats.attachment_extracted = 1
    /\ Stats.doc_updated = 0
    /\ Cardinality(existing_ids \ YieldedIds) = 1
    /\ DOMAIN Stats.bulk_operations = {"create", "update", "delete"}

\* C21: every Update with attachment content is put on the channel after
\* the Create/Update of the document its download was scheduled for.
C21_AttachmentAfterDocument ==
    \A k \in DOMAIN AttachmentOps :
        LET n == OperationOfDoc(DocOfTask(TaskOfUpdate(k)))
        IN  /\ n <= Len(DocOps)
            /\ PutPosition("document", n) < PutPosition("attachment", k)

C21_Witness ==
    /\ gdPc = "put_op"
    /\ cur.lazy_download = "callable"
    /\ tasks # <<>>
    /\ attCur = Len(tasks)
    /\ attPc = "await"
    /\ tasks[attCur].state = "data"
    /\ InReady(GD)
    /\ InReady(ATT)

====
